---- MODULE Spec2Model ----
(***************************************************************************)
(* temporarilySet (src/src/testUtils.js) under the describe / beforeAll /   *)
(* afterAll lifecycle of the test host it registers its callbacks with.     *)
(*                                                                         *)
(* A run has two phases.  In the declaration phase the describe callbacks   *)
(* of a test file execute: they open nested scopes, declare tests and call  *)
(* temporarilySet, which snapshots object[propertyName] and registers two   *)
(* callbacks.  In the run phase the host walks the scope tree: beforeAll    *)
(* hooks of a scope, its children in declaration order, its afterAll hooks. *)
(***************************************************************************)
EXTENDS Integers, Sequences, FiniteSets, TLC

\* ---------------------------------------------------------------- bounds
\* declarations in one test file, inside its outermost describe: nested
\* describe(...), test(...) and temporarilySet(...) calls together
MaxDecls == 5
\* the same, for the runs under the variant hosts (one that repeats enter
\* callbacks, one that runs exit callbacks in any order, one whose tests write)
MaxDeclsRepeat == 4

\* ---------------------------------------------------------------- values
Objects       == {"props"}
PropertyNames == {"disabled", "label"}
Undefined     == "undefined"
Absent        == "absent"      \* the object has no own property of that name
Values        == {Undefined, "false", "true", "My Button"}
TempValues    == {"false", "true"}
Slots         == Values \cup {Absent}

\* let props = { label: "My Button", onClick: jest.fn() }: disabled is missing;
\* the scenario of a props object that starts with disabled: false is included
InitTargets ==
    {[o \in Objects |-> [p \in PropertyNames |->
          IF p = "label" THEN "My Button" ELSE d]] : d \in {Absent, "false"}}

\* what reading a property slot yields
AsRead(slot) == IF slot = Absent THEN Undefined ELSE slot

\* object[propertyName] read: a missing property reads as undefined
Read(tgt, o, p) == IF tgt[o][p] = Absent THEN Undefined ELSE tgt[o][p]

\* object[propertyName] = v: creates or overwrites the own property
\* (variant of it: the object replaced by a fresh one that holds only p)
WriteReplacing(tgt, o, p, v) ==
    [tgt EXCEPT ![o] = [q \in PropertyNames |-> IF q = p THEN v ELSE Absent]]
Write(tgt, o, p, v) == [tgt EXCEPT ![o][p] = v]

VARIABLES
    pc,          \* "declare" | "run" | "done"
    declLimit,   \* the number of declarations the test file may make
    target,      \* the objects: target[o][p] \in Slots
    scopes,      \* describe blocks, in declaration order
    tests,       \* declared tests, in declaration order
    closures,    \* one per temporarilySet call: its captured variables
    declStack,   \* describe callbacks currently executing, innermost first
    runStack,    \* describe blocks currently running, innermost first
    initTarget,  \* history: the objects as they were before the run started
    slotAtCall,  \* history: what the property held right before each call
    scopeAtCall, \* history: the describe block each call was made in
    enterRuns,   \* history: how often each call's beforeAll callback has run
    exitRuns,    \* history: how often each call's afterAll callback has run
    last,        \* history: the hook callback that ran most recently
    lastWrite    \* history: per property, the hook callback that wrote it last

vars == <<pc, declLimit, target, scopes, tests, closures, declStack, runStack,
          initTarget, slotAtCall, scopeAtCall, enterRuns, exitRuns, last, lastWrite>>

NoHook == [fn |-> "none", reg |-> 0]

\* ------------------------------------------------------- temporarilySet
\* const originalValue = object[propertyName];
\* (variant of it: a fixed default instead of the value read, as in the
\* hand-written afterAll of README step 4, props.disabled = undefined)
OriginalValueDefault(tgt, o, p) == Undefined
OriginalValue(tgt, o, p) == Read(tgt, o, p)

\* the variables the two arrow functions close over
Closure(tgt, o, p, v) ==
    [object |-> o, propertyName |-> p, temporaryValue |-> v,
     originalValue |-> OriginalValue(tgt, o, p)]

\* beforeAll(() => { object[propertyName] = temporaryValue; })
\* (variants of it: one that reads originalValue inside the callback, one that
\* writes originalValue)
BeforeAllCallbackCapturing(tgt, c) ==
    [target  |-> Write(tgt, c.object, c.propertyName, c.temporaryValue),
     closure |-> [c EXCEPT !.originalValue = Read(tgt, c.object, c.propertyName)]]
BeforeAllCallbackOriginal(tgt, c) ==
    [target  |-> Write(tgt, c.object, c.propertyName, c.originalValue),
     closure |-> c]
BeforeAllCallback(tgt, c) ==
    [target  |-> Write(tgt, c.object, c.propertyName, c.temporaryValue),
     closure |-> c]

\* afterAll(() => { object[propertyName] = originalValue; })
\* (variants of it: one that restores only while the property still holds
\* temporaryValue, one that writes temporaryValue again)
AfterAllCallbackIfUntouched(tgt, c) ==
    [target  |-> IF Read(tgt, c.object, c.propertyName) = c.temporaryValue
                 THEN Write(tgt, c.object, c.propertyName, c.originalValue)
                 ELSE tgt,
     closure |-> c]
AfterAllCallbackKeeping(tgt, c) ==
    [target  |-> Write(tgt, c.object, c.propertyName, c.temporaryValue),
     closure |-> c]
AfterAllCallback(tgt, c) ==
    [target  |-> Write(tgt, c.object, c.propertyName, c.originalValue),
     closure |-> c]

\* the two registrations temporarilySet makes in the scope being declared
\* (variants of it: both callbacks registered with beforeAll, and the two
\* callbacks registered with each other's hook)
RegisterHooksBothBefore(sc, r) ==
    [sc EXCEPT !.beforeAll = Append(Append(@, [fn |-> "set", reg |-> r]),
                                    [fn |-> "restore", reg |-> r])]
RegisterHooksSwapped(sc, r) ==
    [sc EXCEPT !.beforeAll = Append(@, [fn |-> "restore", reg |-> r]),
               !.afterAll  = Append(@, [fn |-> "set", reg |-> r])]
RegisterHooks(sc, r) ==
    [sc EXCEPT !.beforeAll = Append(@, [fn |-> "set", reg |-> r]),
               !.afterAll  = Append(@, [fn |-> "restore", reg |-> r])]

\* a hook callback applied to the objects and its closure
CallHook(h, tgt, c) ==
    IF h.fn = "set" THEN BeforeAllCallback(tgt, c) ELSE AfterAllCallback(tgt, c)

\* ------------------------------------------------------------ the Button
\* a prop that makes the disabled attribute of the <button> element appear
Truthy(v) == v \notin {Undefined, "false"}

\* const Button = ({ label, onClick = () => {}, disabled = false }) =>
\*     <button onClick={onClick} disabled={disabled}>{label}</button>
\* (variant of it: one that does not pass disabled on to the element)
ButtonIgnoringDisabled(props) ==
    [label |-> AsRead(props["label"]), disabled |-> FALSE]
Button(props) ==
    [label    |-> AsRead(props["label"]),
     disabled |-> Truthy(IF AsRead(props["disabled"]) = Undefined
                         THEN "false" ELSE AsRead(props["disabled"]))]

\* beforeEach: render(<Button {...props} />); button = screen.getByRole("button")
Render(tgt) == Button(tgt["props"])

\* userEvent.click(button): the number of props.onClick calls it causes
Click(button) == IF button.disabled THEN 0 ELSE 1

NotRendered == [label |-> Undefined, disabled |-> FALSE]

\* what a test body assigned to a property of the objects: nothing
NoWrite == [object |-> "none", propertyName |-> "none", value |-> Undefined]

\* ------------------------------------------------------------ the host
NewScope(par) == [parent |-> par, children |-> <<>>,
                  beforeAll |-> <<>>, afterAll |-> <<>>]

Top(stack) == Head(stack)

\* the declarations made so far
Decls == (Len(scopes) - 1) + Len(tests) + Len(closures)

InitFile(limit) ==
    /\ pc = "declare"
    /\ declLimit = limit
    /\ target \in InitTargets
    /\ scopes = <<NewScope(0)>>
    /\ tests = <<>>
    /\ closures = <<>>
    /\ declStack = <<1>>
    /\ runStack = <<>>
    /\ initTarget = target
    /\ slotAtCall = <<>>
    /\ scopeAtCall = <<>>
    /\ enterRuns = <<>>
    /\ exitRuns = <<>>
    /\ last = NoHook
    /\ lastWrite = [o \in Objects |-> [p \in PropertyNames |-> NoHook]]

Init == InitFile(MaxDecls)

\* describe(name, fn) inside the describe callback being executed
Describe ==
    /\ pc = "declare"
    /\ Decls < declLimit
    /\ LET s == Len(scopes) + 1
           par == Top(declStack)
       IN /\ scopes' = Append([scopes EXCEPT ![par].children =
                                  Append(@, [type |-> "describeBlock", id |-> s])],
                              NewScope(par))
          /\ declStack' = <<s>> \o declStack
    /\ UNCHANGED <<pc, declLimit, target, tests, closures, runStack, initTarget,
                   slotAtCall, scopeAtCall, enterRuns, exitRuns, last, lastWrite>>

\* test(name, fn) inside the describe callback being executed
DeclareTest ==
    /\ pc = "declare"
    /\ Decls < declLimit
    /\ LET t == Len(tests) + 1
           s == Top(declStack)
       IN /\ tests' = Append(tests, [scope |-> s, status |-> "pending",
                                     observed |-> target,
                                     button |-> NotRendered,
                                     onClickCalls |-> 0,
                                     wrote |-> NoWrite])
          /\ scopes' = [scopes EXCEPT ![s].children =
                           Append(@, [type |-> "test", id |-> t])]
    /\ UNCHANGED <<pc, declLimit, target, closures, declStack, runStack, initTarget,
                   slotAtCall, scopeAtCall, enterRuns, exitRuns, last, lastWrite>>

\* temporarilySet(object, propertyName, temporaryValue) at declaration time,
\* called at the top of a describe callback, before its tests are declared
\* (variant of it: one that also applies the override right away)
TemporarilySetEager(o, p, v) ==
    /\ pc = "declare"
    /\ Decls < declLimit
    /\ scopes[Top(declStack)].children = <<>>
    /\ LET r == Len(closures) + 1
           s == Top(declStack)
       IN /\ closures' = Append(closures, Closure(target, o, p, v))
          /\ scopes' = [scopes EXCEPT ![s] = RegisterHooks(@, r)]
          /\ slotAtCall' = Append(slotAtCall, target[o][p])
          /\ scopeAtCall' = Append(scopeAtCall, s)
          /\ enterRuns' = Append(enterRuns, 0)
          /\ exitRuns' = Append(exitRuns, 0)
    /\ target' = Write(target, o, p, v)
    /\ UNCHANGED <<pc, declLimit, tests, declStack, runStack, initTarget, last,
                   lastWrite>>
TemporarilySet(o, p, v) ==
    /\ pc = "declare"
    /\ Decls < declLimit
    /\ scopes[Top(declStack)].children = <<>>
    /\ LET r == Len(closures) + 1
           s == Top(declStack)
       IN /\ closures' = Append(closures, Closure(target, o, p, v))
          /\ scopes' = [scopes EXCEPT ![s] = RegisterHooks(@, r)]
          /\ slotAtCall' = Append(slotAtCall, target[o][p])
          /\ scopeAtCall' = Append(scopeAtCall, s)
          /\ enterRuns' = Append(enterRuns, 0)
          /\ exitRuns' = Append(exitRuns, 0)
    /\ UNCHANGED <<pc, declLimit, target, tests, declStack, runStack, initTarget, last,
                   lastWrite>>

\* the position of the host in a describe block: past the last beforeAll hook
\* come the children, past the last child the afterAll hooks
Advance(f) ==
    LET sc == scopes[f.scope]
        g == IF f.phase = "beforeAll" /\ f.idx > Len(sc.beforeAll)
             THEN [f EXCEPT !.phase = "children", !.idx = 1] ELSE f
    IN IF g.phase = "children" /\ g.idx > Len(sc.children)
       THEN [g EXCEPT !.phase = "afterAll", !.idx = 1] ELSE g

Frame(s) == Advance([scope |-> s, phase |-> "beforeAll", idx |-> 1])

\* the describe callback being executed returns; after the outermost one
\* returns, the host starts running the collected tree
EndDescribe ==
    /\ pc = "declare"
    /\ declStack' = Tail(declStack)
    /\ IF Len(declStack) = 1
       THEN pc' = "run" /\ runStack' = <<Frame(1)>>
       ELSE UNCHANGED <<pc, runStack>>
    /\ UNCHANGED <<declLimit, target, scopes, tests, closures, initTarget,
                   slotAtCall, scopeAtCall, enterRuns, exitRuns, last, lastWrite>>

Running == pc = "run" /\ runStack # <<>>
Cur == Top(runStack)
CurScope == scopes[Cur.scope]
SetCur(f) == <<Advance(f)>> \o Tail(runStack)

\* the host calls one hook callback of the running describe block
RunHook(h) ==
    LET res == CallHook(h, target, closures[h.reg])
    IN /\ target' = res.target
       /\ closures' = [closures EXCEPT ![h.reg] = res.closure]
       /\ enterRuns' = IF h.fn = "set"
                       THEN [enterRuns EXCEPT ![h.reg] = @ + 1] ELSE enterRuns
       /\ exitRuns' = IF h.fn = "restore"
                      THEN [exitRuns EXCEPT ![h.reg] = @ + 1] ELSE exitRuns
       /\ last' = h
       /\ lastWrite' = [lastWrite EXCEPT
              ![closures[h.reg].object][closures[h.reg].propertyName] = h]

CallBeforeAll ==
    /\ Running
    /\ Cur.phase = "beforeAll"
    /\ Cur.idx <= Len(CurScope.beforeAll)
    /\ RunHook(CurScope.beforeAll[Cur.idx])
    /\ runStack' = SetCur([Cur EXCEPT !.idx = @ + 1])
    /\ UNCHANGED <<pc, declLimit, scopes, tests, declStack, initTarget, slotAtCall, scopeAtCall>>

AtChild(type) ==
    /\ Running
    /\ Cur.phase = "children"
    /\ Cur.idx <= Len(CurScope.children)
    /\ CurScope.children[Cur.idx].type = type

\* the host runs the next test of the block: the beforeEach of the outermost
\* describe renders the Button from props, then the test reads the objects,
\* clicks the button and passes or fails
RunTest(outcome) ==
    /\ AtChild("test")
    /\ LET t == CurScope.children[Cur.idx].id
       IN tests' = [tests EXCEPT ![t].status = outcome,
                                 ![t].observed = target,
                                 ![t].button = Render(target),
                                 ![t].onClickCalls = Click(Render(target))]
    /\ runStack' = SetCur([Cur EXCEPT !.idx = @ + 1])
    /\ UNCHANGED <<pc, declLimit, target, scopes, closures, declStack, initTarget,
                   slotAtCall, scopeAtCall, enterRuns, exitRuns, last, lastWrite>>

\* the host descends into a nested describe block
RunDescribeBlock ==
    /\ AtChild("describeBlock")
    /\ runStack' = <<Frame(CurScope.children[Cur.idx].id)>>
                   \o SetCur([Cur EXCEPT !.idx = @ + 1])
    /\ UNCHANGED <<pc, declLimit, target, scopes, tests, closures, declStack, initTarget,
                   slotAtCall, scopeAtCall, enterRuns, exitRuns, last, lastWrite>>

CallAfterAll ==
    /\ Running
    /\ Cur.phase = "afterAll"
    /\ Cur.idx <= Len(CurScope.afterAll)
    /\ RunHook(CurScope.afterAll[Cur.idx])
    /\ runStack' = SetCur([Cur EXCEPT !.idx = @ + 1])
    /\ UNCHANGED <<pc, declLimit, scopes, tests, declStack, initTarget, slotAtCall, scopeAtCall>>

FinishDescribeBlock ==
    /\ Running
    /\ Cur.phase = "afterAll"
    /\ Cur.idx > Len(CurScope.afterAll)
    /\ runStack' = Tail(runStack)
    /\ pc' = IF Len(runStack) = 1 THEN "done" ELSE pc
    /\ UNCHANGED <<declLimit, target, scopes, tests, closures, declStack, initTarget,
                   slotAtCall, scopeAtCall, enterRuns, exitRuns, last, lastWrite>>

Next ==
    \/ Describe
    \/ DeclareTest
    \/ \E o \in Objects, p \in PropertyNames, v \in TempValues :
          TemporarilySet(o, p, v)
    \/ EndDescribe
    \/ CallBeforeAll
    \/ \E outcome \in {"passed", "failed"} : RunTest(outcome)
    \/ RunDescribeBlock
    \/ CallAfterAll
    \/ FinishDescribeBlock

Spec == Init /\ [][Next]_vars

\* A host that calls a beforeAll callback of the describe block it is running
\* again, between two children of the block.
MaxEnterRuns == 2

ReEnter ==
    /\ Running
    /\ Cur.phase = "children"
    /\ \E r \in 1..Len(closures) :
          /\ \E i \in 1..Len(CurScope.beforeAll) : CurScope.beforeAll[i].reg = r
          /\ enterRuns[r] >= 1
          /\ enterRuns[r] < MaxEnterRuns
          /\ exitRuns[r] = 0
          /\ RunHook([fn |-> "set", reg |-> r])
    /\ UNCHANGED <<pc, declLimit, scopes, tests, declStack, runStack, initTarget, slotAtCall, scopeAtCall>>

NextRepeat == Next \/ ReEnter

InitRepeat == InitFile(MaxDeclsRepeat)

SpecRepeat == InitRepeat /\ [][NextRepeat]_vars

\* ------------------------------------------------------------ vocabulary
Regs == 1..Len(closures)
TestIds == 1..Len(tests)
ScopeIds == 1..Len(scopes)

\* the describe block a temporarilySet call was made in
ScopeOf(r) == scopeAtCall[r]

RECURSIVE IsWithin(_, _)
\* describe block s is block a or nested, at any depth, inside it
IsWithin(s, a) ==
    IF s = a THEN TRUE
    ELSE IF s = 0 THEN FALSE
    ELSE IsWithin(scopes[s].parent, a)

StrictlyWithin(s, a) == s # a /\ IsWithin(s, a)

\* the dependent tests of a temporarilySet call
TestsOf(r) == {t \in TestIds : IsWithin(tests[t].scope, ScopeOf(r))}

Ran(t) == tests[t].status # "pending"

SameProperty(r, q) ==
    /\ closures[r].object = closures[q].object
    /\ closures[r].propertyName = closures[q].propertyName

Now(r) == Read(target, closures[r].object, closures[r].propertyName)
Before(r) == AsRead(slotAtCall[r])
AtStart(r) == Read(initTarget, closures[r].object, closures[r].propertyName)

SetHook(r) == [fn |-> "set", reg |-> r]
RestoreHook(r) == [fn |-> "restore", reg |-> r]

\* between the enter callback and the exit callback of call r
InScope(r) == enterRuns[r] >= 1 /\ exitRuns[r] = 0

TypeOK ==
    /\ pc \in {"declare", "run", "done"}
    /\ target \in [Objects -> [PropertyNames -> Slots]]
    /\ Decls <= declLimit

\* ---------------------------------------------------------------- claims

\* C1: right after the exit callback of a temporarilySet call has run, whether
\* its dependent tests passed or failed, object[propertyName] reads as the
\* value it had immediately before temporarilySet was invoked.
C1_RestoredAfterScope ==
    \A r \in Regs : last = RestoreHook(r) => Now(r) = Before(r)

C1_Witness ==
    \E r \in Regs :
        /\ last = RestoreHook(r)
        /\ closures[r].temporaryValue # Before(r)
        /\ \E t \in TestsOf(r) : tests[t].status = "failed"
        /\ \E t \in TestsOf(r) : tests[t].status = "passed"

\* C2 as stated: in every state after the enter callback and before the exit
\* callback of temporarilySet(O, P, V), O[P] equals V.
C2_InScopeHoldsTemp ==
    \A r \in Regs : InScope(r) => Now(r) = closures[r].temporaryValue

\* C2 amended: in every state after the enter callback and before the exit
\* callback of temporarilySet(O, P, V), O[P] equals V provided no callback of
\* another temporarilySet call on the same O[P] has run since that enter
\* callback.
C2_InScopeHoldsTempUnlessOverwritten ==
    \A r \in Regs :
        (/\ InScope(r)
         /\ lastWrite[closures[r].object][closures[r].propertyName] = SetHook(r))
            => Now(r) = closures[r].temporaryValue

C2_Witness ==
    \E r \in Regs :
        /\ InScope(r)
        /\ lastWrite[closures[r].object][closures[r].propertyName] = SetHook(r)
        /\ closures[r].temporaryValue # Before(r)
        /\ \E t \in TestsOf(r) : Ran(t)
        /\ \E q \in Regs : q # r /\ SameProperty(r, q) /\ exitRuns[q] = 1

\* call q is made in a describe block nested inside the block of call r
Nested(r, q) == StrictlyWithin(ScopeOf(q), ScopeOf(r))

\* calls r and q are made in describe blocks neither of which contains the other
Siblings(r, q) ==
    /\ r # q
    /\ ~IsWithin(ScopeOf(q), ScopeOf(r))
    /\ ~IsWithin(ScopeOf(r), ScopeOf(q))

\* r and q are the only calls on their property
OnlyCallsOn(r, q) ==
    \A x \in Regs : SameProperty(x, r) => x \in {r, q}

\* C3: an outer scope calls temporarilySet(O, P, V1) and a scope nested in it
\* calls temporarilySet(O, P, V2): O.P is V2 during the inner scope, V1 after
\* the inner scope has exited and before the outer one exits, and the
\* pre-outer-scope value after the outer scope has exited.
C3_NestingProperty ==
    \A r, q \in Regs :
        (Nested(r, q) /\ SameProperty(r, q) /\ OnlyCallsOn(r, q)) =>
            /\ InScope(q) => Now(q) = closures[q].temporaryValue
            /\ (InScope(r) /\ exitRuns[q] = 1) => Now(r) = closures[r].temporaryValue
            /\ exitRuns[r] = 1 => Now(r) = Before(r)

\* C4: two sibling scopes call temporarilySet on the same O.P: each one's
\* exit callback restores O.P to the value O.P had when that call was made,
\* and once both have exited O.P is the value from before the run, whichever
\* of the two was declared and run first.
C4_SiblingIndependence ==
    \A r, q \in Regs :
        (Siblings(r, q) /\ SameProperty(r, q) /\ last = RestoreHook(r)) =>
            /\ Now(r) = Before(r)
            /\ exitRuns[q] = 1 => Now(r) = AtStart(r)

C4_Witness ==
    \E r, q \in Regs :
        /\ Siblings(r, q) /\ SameProperty(r, q)
        /\ last = RestoreHook(r)
        /\ exitRuns[q] = 1
        /\ closures[r].temporaryValue # closures[q].temporaryValue
        /\ AtStart(r) # Undefined
        /\ \E t \in TestsOf(r) \cup TestsOf(q) : Ran(t)

\* C5: props.disabled is false before the run and scope A is the one scope
\* that calls temporarilySet(props, "disabled", true): every test inside
\* scope A observes props.disabled = true and every test outside it observes
\* false, wherever scope A is declared among its sibling tests.
ScopeA(r) ==
    /\ closures[r].object = "props"
    /\ closures[r].propertyName = "disabled"
    /\ closures[r].temporaryValue = "true"
    /\ initTarget["props"]["disabled"] = "false"
    /\ \A x \in Regs : SameProperty(x, r) => x = r

Observed(t) == Read(tests[t].observed, "props", "disabled")

C5_NoCrossScopeLeakage ==
    \A r \in Regs : ScopeA(r) =>
        \A t \in TestIds : Ran(t) =>
            Observed(t) = IF t \in TestsOf(r) THEN "true" ELSE "false"

C5_Witness ==
    \E r \in Regs :
        /\ ScopeA(r)
        /\ \E w, t, u \in TestIds :
              /\ w \notin TestsOf(r) /\ Ran(w)
              /\ t \in TestsOf(r) /\ Ran(t)
              /\ u \notin TestsOf(r) /\ Ran(u)
              /\ w < t /\ t < u

\* C6: the property does not exist on the object when temporarilySet is
\* invoked: right after the exit callback it is removed or holds undefined,
\* it does not hold a defined value.
C6_AbsentStaysUndefined ==
    \A r \in Regs :
        (slotAtCall[r] = Absent /\ last = RestoreHook(r)) =>
            target[closures[r].object][closures[r].propertyName]
                \in {Absent, Undefined}

C6_Witness ==
    \E r \in Regs :
        /\ slotAtCall[r] = Absent
        /\ last = RestoreHook(r)
        /\ \E t \in TestsOf(r) :
              Read(tests[t].observed, closures[r].object,
                   closures[r].propertyName) = closures[r].temporaryValue

\* C7: the exit callback of a temporarilySet call runs at most once, it runs
\* only after every dependent test of its scope has run, and by the end of
\* the run it has run once for every scope that holds a test, whether or not
\* a dependent test failed.
C7_ExitOnceAfterLastTest ==
    \A r \in Regs :
        /\ exitRuns[r] <= 1
        /\ exitRuns[r] >= 1 => \A t \in TestsOf(r) : Ran(t)
        /\ (pc = "done" /\ TestsOf(r) # {}) => exitRuns[r] = 1

C7_Witness ==
    \E r \in Regs :
        /\ pc = "done"
        /\ exitRuns[r] = 1
        /\ Cardinality(TestsOf(r)) >= 2
        /\ \E t \in TestsOf(r) : tests[t].status = "failed"

\* C8: the enter callback of a temporarilySet call runs at most once, and no
\* dependent test of its scope has run in a state where it had not yet run.
C8_EnterOnceBeforeFirstTest ==
    \A r \in Regs :
        /\ enterRuns[r] <= 1
        /\ (\E t \in TestsOf(r) : Ran(t)) => enterRuns[r] = 1

C8_Witness ==
    \E r \in Regs :
        /\ enterRuns[r] = 1
        /\ exitRuns[r] = 0
        /\ Cardinality({t \in TestsOf(r) : Ran(t)}) = 1
        /\ Cardinality(TestsOf(r)) >= 2

\* C9: for a call q made in a scope nested inside the scope of call r, the
\* enter callback of r runs before the enter callback of q and the exit
\* callback of q runs before the exit callback of r.
C9_StackDiscipline ==
    \A r, q \in Regs : Nested(r, q) =>
        /\ enterRuns[q] >= 1 => enterRuns[r] >= 1
        /\ exitRuns[r] >= 1 => exitRuns[q] >= 1

C9_Witness ==
    \E r, q \in Regs :
        /\ Nested(r, q)
        /\ last = RestoreHook(r)
        /\ enterRuns[q] = 1 /\ exitRuns[q] = 1
        /\ \E t \in TestsOf(q) : Ran(t)

\* C10: the original value is read when temporarilySet is invoked and the
\* enter callback never reads it again, so when the enter callback has run
\* more than once before the exit callback, the exit callback still restores
\* O[P] to the value from before the invocation, not to the temporary value.
C10_OriginalValueReadOnce ==
    \A r \in Regs :
        /\ closures[r].originalValue = Before(r)
        /\ (last = RestoreHook(r) /\ enterRuns[r] >= 2) => Now(r) = Before(r)

C10_Witness ==
    \E r \in Regs :
        /\ last = RestoreHook(r)
        /\ enterRuns[r] >= 2
        /\ closures[r].temporaryValue # Before(r)
        /\ Now(r) # closures[r].temporaryValue

\* C11: temporarilySet writes the object only in its two callbacks: while the
\* test file is being declared the objects are as before the run, a property
\* no callback has run on yet holds what it held at registration, and every
\* other property holds exactly what the callback that ran on it last wrote:
\* the temporary value of that call after its enter callback, its original
\* value after its exit callback.
C11_WritesOnlyInCallbacks ==
    /\ pc = "declare" => target = initTarget
    /\ \A r \in Regs :
          lastWrite[closures[r].object][closures[r].propertyName] = NoHook
              => target[closures[r].object][closures[r].propertyName] = slotAtCall[r]
    /\ \A o \in Objects, p \in PropertyNames :
          LET h == lastWrite[o][p]
          IN IF h = NoHook
             THEN target[o][p] = initTarget[o][p]
             ELSE /\ closures[h.reg].object = o
                  /\ closures[h.reg].propertyName = p
                  /\ target[o][p] = IF h.fn = "set"
                                    THEN closures[h.reg].temporaryValue
                                    ELSE closures[h.reg].originalValue

C11_Witness ==
    \E r, q \in Regs :
        /\ ~SameProperty(r, q)
        /\ InScope(r)
        /\ closures[r].temporaryValue # Before(r)
        /\ enterRuns[q] = 0
        /\ \E t \in TestsOf(r) : Ran(t)

\* call r is the only call on its property
ManagesOwnProperty(r) == \A q \in Regs : SameProperty(r, q) => q = r

\* C12: a temporarilySet call whose property no other call overrides is not
\* disturbed by the callbacks of the other calls, whether they are made in
\* the same, a nested or a sibling scope: its property holds its temporary
\* value throughout its scope and its original value once its scope exited.
C12_IndependentCallsCompose ==
    \A r \in Regs : ManagesOwnProperty(r) =>
        /\ InScope(r) => Now(r) = closures[r].temporaryValue
        /\ exitRuns[r] >= 1 => Now(r) = Before(r)

C12_Witness ==
    \E r, q \in Regs :
        /\ r # q
        /\ ManagesOwnProperty(r) /\ ManagesOwnProperty(q)
        /\ Nested(r, q)
        /\ InScope(r)
        /\ exitRuns[q] = 1
        /\ closures[r].temporaryValue # Before(r)
        /\ closures[q].temporaryValue # Before(q)
        /\ \E t \in TestsOf(q) : Ran(t)

\* the "when disabled" scope: the one call on props.disabled, with true
WhenDisabled(r) ==
    /\ closures[r].object = "props"
    /\ closures[r].propertyName = "disabled"
    /\ closures[r].temporaryValue = "true"
    /\ ManagesOwnProperty(r)

\* C13: for every test inside the "when disabled" scope the enter callback
\* of the scope has run before the beforeEach of the enclosing describe
\* renders the component: the button is rendered disabled and the click on it
\* does not call props.onClick.
C13_DisabledButtonNotClicked ==
    \A r \in Regs : WhenDisabled(r) =>
        \A t \in TestsOf(r) : Ran(t) =>
            /\ enterRuns[r] = 1
            /\ tests[t].button.disabled
            /\ tests[t].onClickCalls = 0

C13_Witness ==
    \E r \in Regs :
        /\ WhenDisabled(r)
        /\ \E t, u \in TestIds :
              /\ t \in TestsOf(r) /\ Ran(t) /\ tests[t].onClickCalls = 0
              /\ u \notin TestsOf(r) /\ Ran(u) /\ tests[u].onClickCalls = 1
              /\ t < u

\* C14: every temporarilySet call snapshots its property as it was before the
\* run started, so all calls on one property snapshot the same value; a
\* nested or later sibling call never snapshots a temporary value that
\* another call installed.
C14_SnapshotIsPreRunValue ==
    \A r \in Regs :
        /\ slotAtCall[r] = initTarget[closures[r].object][closures[r].propertyName]
        /\ closures[r].originalValue = AtStart(r)
        /\ \A q \in Regs :
              SameProperty(r, q) =>
                  closures[q].originalValue = closures[r].originalValue

C14_Witness ==
    \E r, q \in Regs :
        /\ SameProperty(r, q)
        /\ Nested(r, q)
        /\ InScope(r) /\ InScope(q)
        /\ closures[r].temporaryValue # AtStart(r)
        /\ closures[q].temporaryValue # closures[r].temporaryValue
        /\ closures[q].originalValue # closures[r].temporaryValue
        /\ \E t \in TestsOf(q) : Ran(t)

\* ---------------------------------------- a host with unordered exit hooks
\* A host that runs the afterAll callbacks in any order: those of one block in
\* any order, and those of a nested block possibly after those of the block
\* around it; the run ends when every one of them has run.
HookRuns(h) == IF h.fn = "set" THEN enterRuns[h.reg] ELSE exitRuns[h.reg]

PendingAfterAll(s) ==
    {h \in {scopes[s].afterAll[i] : i \in 1..Len(scopes[s].afterAll)} :
        HookRuns(h) = 0}

CallAfterAllAnyOrder ==
    /\ Running
    /\ Cur.phase = "afterAll"
    /\ \E s \in ScopeIds :
          /\ IsWithin(s, Cur.scope)
          /\ \E h \in PendingAfterAll(s) : RunHook(h)
    /\ UNCHANGED <<pc, declLimit, scopes, tests, declStack, runStack, initTarget,
                   slotAtCall, scopeAtCall>>

FinishDescribeBlockAnyOrder ==
    /\ Running
    /\ Cur.phase = "afterAll"
    /\ Len(runStack) = 1 => \A s \in ScopeIds : PendingAfterAll(s) = {}
    /\ runStack' = Tail(runStack)
    /\ pc' = IF Len(runStack) = 1 THEN "done" ELSE pc
    /\ UNCHANGED <<declLimit, target, scopes, tests, closures, declStack, initTarget,
                   slotAtCall, scopeAtCall, enterRuns, exitRuns, last, lastWrite>>

NextAnyOrder ==
    \/ Describe
    \/ DeclareTest
    \/ \E o \in Objects, p \in PropertyNames, v \in TempValues :
          TemporarilySet(o, p, v)
    \/ EndDescribe
    \/ CallBeforeAll
    \/ \E outcome \in {"passed", "failed"} : RunTest(outcome)
    \/ RunDescribeBlock
    \/ CallAfterAllAnyOrder
    \/ FinishDescribeBlockAnyOrder

InitAnyOrder == InitFile(MaxDeclsRepeat)

SpecAnyOrder == InitAnyOrder /\ [][NextAnyOrder]_vars

\* C15: after the whole run has finished, every exit callback having run, in
\* whatever order the host ran them and however the temporarilySet calls on a
\* property were combined (nested, sibling, repeated in one scope), every
\* property reads as it did before the run started; nothing but the callbacks
\* of temporarilySet writes the objects.
C15_RunRestoresEverything ==
    pc = "done" =>
        /\ \A r \in Regs : exitRuns[r] = 1
        /\ \A o \in Objects, p \in PropertyNames :
              Read(target, o, p) = Read(initTarget, o, p)

C15_Witness ==
    /\ pc = "done"
    /\ \E r, q \in Regs :
          /\ SameProperty(r, q)
          /\ Nested(r, q)
          /\ last = RestoreHook(q)
          /\ closures[r].temporaryValue # AtStart(r)
          /\ closures[q].temporaryValue # closures[r].temporaryValue
          /\ \E t \in TestsOf(q) : Ran(t)

\* ------------------------------------------------ a file whose tests write
\* A test whose body assigns a property of the objects: it reads the objects,
\* clicks the rendered button, assigns, and passes or fails.
TestWrites == {"false", "true"}

RunTestWriting(outcome, o, p, v) ==
    /\ AtChild("test")
    /\ LET t == CurScope.children[Cur.idx].id
       IN /\ tests' = [tests EXCEPT ![t].status = outcome,
                                    ![t].observed = target,
                                    ![t].button = Render(target),
                                    ![t].onClickCalls = Click(Render(target)),
                                    ![t].wrote = [object |-> o, propertyName |-> p,
                                                  value |-> v]]
          /\ lastWrite' = [lastWrite EXCEPT ![o][p] = [fn |-> "test", reg |-> t]]
    /\ target' = Write(target, o, p, v)
    /\ runStack' = SetCur([Cur EXCEPT !.idx = @ + 1])
    /\ UNCHANGED <<pc, declLimit, scopes, closures, declStack, initTarget,
                   slotAtCall, scopeAtCall, enterRuns, exitRuns, last>>

NextWrite ==
    \/ Next
    \/ \E outcome \in {"passed", "failed"}, o \in Objects, p \in PropertyNames,
          v \in TestWrites : RunTestWriting(outcome, o, p, v)

InitWrite == InitFile(MaxDeclsRepeat)

SpecWrite == InitWrite /\ [][NextWrite]_vars

\* test t assigned the property of call r
WroteProperty(t, r) ==
    /\ tests[t].wrote.object = closures[r].object
    /\ tests[t].wrote.propertyName = closures[r].propertyName

\* what test t found in the property of call r
ObservedBy(t, r) ==
    Read(tests[t].observed, closures[r].object, closures[r].propertyName)

\* C16: a dependent test inside the scope of temporarilySet(O, P, V) assigns
\* O[P]: the override is not applied again, the later tests of the scope find
\* the value of the latest such assignment, not V; the exit callback still
\* restores O[P] to the original value captured at invocation (it holds that
\* value until something assigns it again).
C16_TestWriteNotReapplied ==
    \A r \in Regs :
        /\ ManagesOwnProperty(r) =>
              \A t, u \in TestsOf(r) :
                  (/\ t < u /\ Ran(u)
                   /\ WroteProperty(t, r)
                   /\ \A x \in TestIds : (t < x /\ x < u) => ~WroteProperty(x, r))
                      => ObservedBy(u, r) = tests[t].wrote.value
        /\ (/\ lastWrite[closures[r].object][closures[r].propertyName]
                  = RestoreHook(r)
            /\ \E t \in TestsOf(r) : WroteProperty(t, r))
              => Now(r) = Before(r)

C16_Witness ==
    \E r \in Regs :
        /\ lastWrite[closures[r].object][closures[r].propertyName] = RestoreHook(r)
        /\ Now(r) = Before(r)
        /\ \E t, u \in TestsOf(r) :
              /\ t < u
              /\ WroteProperty(t, r)
              /\ tests[t].wrote.value \notin {closures[r].temporaryValue, Before(r)}
              /\ ObservedBy(t, r) = closures[r].temporaryValue
              /\ ObservedBy(u, r) = tests[t].wrote.value
              /\ ~WroteProperty(u, r)
====
